---- MODULE Spec2Model ----
(***************************************************************************)
(* A model of main.py, the WhatsApp chat logger backend: the MongoDB       *)
(* collections messages, automation_settings and exclusion_filters, and    *)
(* the FastAPI handlers that read and write them.  Each handler is one     *)
(* action for requests that run one after another; the handlers that       *)
(* concurrent requests race in are also split into one step per database   *)
(* write, so that requests of different clients interleave between their   *)
(* calls as they do in the server.                                         *)
(*                                                                         *)
(* Text that the code inspects character by character (message ids as      *)
(* decimal strings, exclusion entries) is a sequence of one-character      *)
(* strings; text the code only stores and copies is a TLA+ string.         *)
(* None is the string "None" for optional text and 0 for an optional       *)
(* datetime; datetimes are the instants 1, 2, ...                          *)
(***************************************************************************)
EXTENDS Integers, Sequences, FiniteSets, TLC

\* ------------------------------------------------------------------ bounds
\* Highest message id an append may be given.
MaxId == 2
\* Instants a caller may put on a message: 1..MaxTime.
MaxTime == 2
\* Longest exclude_ids / exclude_id_patterns list of one filter request.
MaxListLen == 2
\* should_exclude_id is compared with the rule on the ids 0..MaxIdArg.
MaxIdArg == 22
\* Largest limit and offset of a conversation request.
MaxPage == 3

\* ----------------------------------------------------------------- values
NoneStr == "None"
NoTimestamp == 0

\* The clients whose responses the claims read, and one whose responses
\* are read by no claim and are not kept.
Procs == {"c1", "c2"}
Quiet == "quiet"
Clients == Procs \cup {Quiet}

\* Phones, listed in the ascending order MongoDB sorts them in.
PhoneSeq == <<"+1555", "+1666">>
Phones == {PhoneSeq[i] : i \in 1..Len(PhoneSeq)}
PhoneOrd(phone) == CHOOSE i \in 1..Len(PhoneSeq) : PhoneSeq[i] = phone

Times == 1..MaxTime

\* ------------------------------------------------------------ Python text
DigitChars == <<"0", "1", "2", "3", "4", "5", "6", "7", "8", "9">>

\* str(n) of a non-negative int.
RECURSIVE str(_)
str(n) == IF n < 10 THEN <<DigitChars[n + 1]>>
          ELSE str(n \div 10) \o <<DigitChars[(n % 10) + 1]>>

IsSpace(c) == c \in {" ", "\t", "\n"}

RECURSIVE lstrip(_)
lstrip(s) == IF s # <<>> /\ IsSpace(Head(s)) THEN lstrip(Tail(s)) ELSE s

RECURSIVE rstrip(_)
rstrip(s) == IF s # <<>> /\ IsSpace(s[Len(s)])
             THEN rstrip(SubSeq(s, 1, Len(s) - 1)) ELSE s

\* s.strip()
strip(s) == rstrip(lstrip(s))

LowerChar(c) == CASE c = "A" -> "a"
                  [] c = "B" -> "b"
                  [] OTHER -> c

\* s.lower()
lower(s) == [i \in 1..Len(s) |-> LowerChar(s[i])]

\* sub in s
contains(sub, s) ==
    \E i \in 0..(Len(s) - Len(sub)) : SubSeq(s, i + 1, i + Len(sub)) = sub

\* The elements of a list, as list(set(...)) keeps them: each once, in an
\* order no code reads.
Elems(list) == {list[i] : i \in 1..Len(list)}

\* ------------------------------------------------------------------ state
VARIABLES
    messages_col,     \* the documents of db["messages"]
    automation_col,   \* the documents of db["automation_settings"]
    filters_col,      \* the documents of db["exclusion_filters"]
    now,              \* what datetime.utcnow() returns
    pc,               \* client -> where its handler stands, with its locals
    resp,             \* client of Procs -> the last response it was sent
    returned          \* the ids appends have returned to clients of Procs

vars == <<messages_col, automation_col, filters_col, now, pc, resp, returned>>

Idle == [at |-> "idle"]
NoResponse == [op |-> "none", status |-> 0]

Init ==
    /\ messages_col = {}
    /\ automation_col = {}
    /\ filters_col = {}
    /\ now = 1
    /\ pc = [p \in Clients |-> Idle]
    /\ resp = [p \in Procs |-> NoResponse]
    /\ returned = {}

\* ------------------------------------------------------- exclusion filters
\* get_excluded_ids(): the ids of the exclude_exact_ids document, [] without one.
get_excluded_ids ==
    UNION {doc.ids : doc \in {d \in filters_col : d.filter_type = "exclude_exact_ids"}}

\* get_excluded_id_patterns()
get_excluded_id_patterns ==
    UNION {doc.patterns : doc \in {d \in filters_col : d.filter_type = "exclude_id_patterns"}}

\* should_exclude_id with its "pattern in id" test replaced by equality.
should_exclude_id_equal(id_value) ==
    LET id_str == str(id_value) IN
    \/ id_str \in get_excluded_ids
    \/ \E pattern \in get_excluded_id_patterns :
          pattern # <<>> /\ lower(pattern) = lower(id_str)

\* should_exclude_id(id_value)
should_exclude_id(id_value) ==
    LET id_str == str(id_value) IN
    \/ id_str \in get_excluded_ids
    \/ \E pattern \in get_excluded_id_patterns :
          pattern # <<>> /\ contains(lower(pattern), lower(id_str))

\* apply_id_filters(docs)
apply_id_filters(docs) == SelectSeq(docs, LAMBDA doc : ~should_exclude_id(doc.id))

\* clean_ids: list(set([str(v).strip() for v in exclude_ids if str(v).strip()]))
clean_ids(exclude_ids) ==
    Elems([i \in 1..Len(SelectSeq(exclude_ids, LAMBDA id_val : strip(id_val) # <<>>)) |->
             strip(SelectSeq(exclude_ids, LAMBDA id_val : strip(id_val) # <<>>)[i])])

\* clean_patterns: list(set([p.strip() for p in patterns if p and p.strip()]))
clean_patterns(exclude_id_patterns) ==
    Elems([i \in 1..Len(SelectSeq(exclude_id_patterns,
                                  LAMBDA p : p # <<>> /\ strip(p) # <<>>)) |->
             strip(SelectSeq(exclude_id_patterns,
                             LAMBDA p : p # <<>> /\ strip(p) # <<>>)[i])])

\* ------------------------------------------------------------- read views
\* The orders a cursor may return the documents S in, before any sort.
Enumerations(S) ==
    {s \in [1..Cardinality(S) -> S] :
        \A i, j \in 1..Cardinality(S) : i # j => s[i] # s[j]}

\* The key order of sort([("phone", ASCENDING), ("timestamp", DESCENDING)])
PhoneThenNewest(a, b) ==
    \/ PhoneOrd(a.phone) < PhoneOrd(b.phone)
    \/ a.phone = b.phone /\ a.timestamp > b.timestamp

\* The key order of sort("timestamp", ASCENDING)
Oldest(a, b) == a.timestamp < b.timestamp

\* A sort by phone that leaves each phone's documents oldest first.
sort_phone_timestamp_asc(S) ==
    {s \in Enumerations(S) :
        \A i, j \in 1..Cardinality(S) : i < j =>
            ~(\/ PhoneOrd(s[j].phone) < PhoneOrd(s[i].phone)
              \/ s[j].phone = s[i].phone /\ s[j].timestamp < s[i].timestamp)}

\* find().sort([("phone", ASCENDING), ("timestamp", DESCENDING)]): every
\* enumeration the sort key allows.  Documents with equal keys come in an
\* order MongoDB does not fix.
sort_phone_timestamp(S) ==
    {s \in Enumerations(S) :
        \A i, j \in 1..Cardinality(S) : i < j => ~PhoneThenNewest(s[j], s[i])}

\* find().sort("timestamp", ASCENDING), likewise.
sort_timestamp(S) ==
    {s \in Enumerations(S) :
        \A i, j \in 1..Cardinality(S) : i < j => ~Oldest(s[j], s[i])}

\* doc_to_message(doc)
doc_to_message(doc) ==
    [id |-> doc.id, phone |-> doc.phone, client_name |-> doc.client_name,
     direction |-> doc.direction, message |-> doc.message,
     media_url |-> doc.media_url, automation |-> doc.automation,
     timestamp |-> doc.timestamp, follow_up_needed |-> doc.follow_up_needed,
     handled_by |-> doc.handled_by, notes |-> doc.notes]

\* The keys of latest_per_phone, in the order the loop inserted them.
RECURSIVE first_seen(_)
first_seen(docs) ==
    IF docs = <<>> THEN <<>>
    ELSE LET before == first_seen(SubSeq(docs, 1, Len(docs) - 1))
             phone == docs[Len(docs)].phone
         IN  IF phone \in Elems(before) THEN before ELSE Append(before, phone)

\* latest_per_phone that keeps the last document of a phone, not the first.
latest_per_phone_last(docs) ==
    [phone \in Elems(first_seen(docs)) |->
        docs[CHOOSE i \in 1..Len(docs) :
                /\ docs[i].phone = phone
                /\ \A j \in 1..Len(docs) : docs[j].phone = phone => j <= i]]

\* latest_per_phone after the loop: the first document of each phone.
latest_per_phone(docs) ==
    [phone \in Elems(first_seen(docs)) |->
        docs[CHOOSE i \in 1..Len(docs) :
                /\ docs[i].phone = phone
                /\ \A j \in 1..Len(docs) : docs[j].phone = phone => i <= j]]

\* followups that reads the flag of the latest document only.
followups_latest(docs) ==
    [phone \in Elems(first_seen(docs)) |-> latest_per_phone(docs)[phone].follow_up_needed]

\* followups after the loop: whether any document of the phone is flagged.
followups(docs) ==
    [phone \in Elems(first_seen(docs)) |->
        \E i \in 1..Len(docs) : docs[i].phone = phone /\ docs[i].follow_up_needed]

ContactSummary(phone, m, fu) ==
    [phone |-> phone, client_name |-> m.client_name, last_message |-> m.message,
     last_time |-> m.timestamp, last_direction |-> m.direction,
     follow_up_open |-> fu]

\* contacts.sort(key=lambda x: x.last_time, reverse=True): stable.
RECURSIVE sort_last_time_desc(_)
sort_last_time_desc(contacts) ==
    IF Len(contacts) <= 1 THEN contacts
    ELSE LET head == sort_last_time_desc(SubSeq(contacts, 1, Len(contacts) - 1))
             x == contacts[Len(contacts)]
             k == Cardinality({i \in 1..Len(head) : head[i].last_time >= x.last_time})
         IN  SubSeq(head, 1, k) \o <<x>> \o SubSeq(head, k + 1, Len(head))

\* The body of list_contacts on the fetched documents.
contacts_of(fetched, only_follow_up) ==
    LET docs == apply_id_filters(fetched)
        keys == first_seen(docs)
        kept == SelectSeq(keys, LAMBDA phone : ~(only_follow_up /\ ~followups(docs)[phone]))
    IN  sort_last_time_desc(
            [i \in 1..Len(kept) |->
                ContactSummary(kept[i], latest_per_phone(docs)[kept[i]],
                               followups(docs)[kept[i]])])

\* GET /contacts: what a call in the current state may return.
list_contacts(only_follow_up) ==
    {contacts_of(fetched, only_follow_up) : fetched \in sort_phone_timestamp(messages_col)}

\* .skip(offset).limit(limit) of a cursor; limit(0) is no limit.
skip_limit(docs, offset, limit) ==
    LET last == IF limit = 0 \/ offset + limit > Len(docs) THEN Len(docs)
                ELSE offset + limit
    IN  IF offset >= Len(docs) THEN <<>> ELSE SubSeq(docs, offset + 1, last)

\* GET /conversation/{phone}: what a call in the current state may return.
get_conversation(phone, limit, offset) ==
    {LET docs == apply_id_filters(skip_limit(fetched, offset, limit))
     IN  [i \in 1..Len(docs) |-> doc_to_message(docs[i])] :
        fetched \in sort_timestamp({m \in messages_col : m.phone = phone})}

\* ------------------------------------------------------------ message log
\* get_next_message_id(): the highest stored id plus one, 1 on an empty log.
get_next_message_id ==
    IF messages_col = {} THEN 1
    ELSE (CHOOSE i \in {m.id : m \in messages_col} :
             \A m \in messages_col : m.id <= i) + 1

\* A collection whose id index is not unique: no insert is refused.
DuplicateKey_never(doc) == FALSE

\* The unique index on "id": insert_one raises DuplicateKeyError on a stored id.
DuplicateKey(doc) == \E m \in messages_col : m.id = doc.id

W_user == <<"u", "s", "e", "r">>
W_incoming == <<"i", "n", "c", "o", "m", "i", "n", "g">>
W_client == <<"c", "l", "i", "e", "n", "t">>
W_bot == <<"b", "o", "t">>
W_outgoing == <<"o", "u", "t", "g", "o", "i", "n", "g">>
W_agent == <<"a", "g", "e", "n", "t">>

Invalid == "HTTP 400"

\* A normalize_direction that keeps any non-empty text as a label.
normalize_direction_label(raw) == IF raw = <<>> THEN Invalid ELSE "label"

\* normalize_direction(raw): "user", "bot", or the HTTPException(400).
normalize_direction(raw) ==
    IF raw = <<>> THEN Invalid
    ELSE LET r == lower(strip(raw)) IN
         IF r \in {W_user, W_incoming, W_client} THEN "user"
         ELSE IF r \in {W_bot, W_outgoing, W_agent} THEN "bot"
         ELSE Invalid

\* A parse whose failure gives the first instant, not the time of the request.
fromisoformat_first(text) == IF text.iso THEN text.instant ELSE 1

\* datetime.fromisoformat(text.replace("Z", "+00:00")): the instant a
\* well-formed text names, NoTimestamp for the exception.
fromisoformat(text) == IF text.iso THEN text.instant ELSE NoTimestamp

\* The document POST /log stores under `id`.
log_doc(payload, id) ==
    [id |-> id,
     phone |-> payload.phone,
     client_name |-> payload.client_name,
     direction |-> normalize_direction(payload.direction),
     message |-> payload.message,
     media_url |-> payload.media_url,
     automation |-> payload.automation,
     timestamp |-> IF payload.timestamp = NoTimestamp THEN now ELSE payload.timestamp,
     follow_up_needed |-> payload.follow_up_needed,
     handled_by |-> NoneStr,
     notes |-> NoneStr]

\* existing.get("client_name") if existing else None, for find_one({"phone": phone}):
\* the name on any stored message of the phone.
existing_client_names(phone) ==
    IF \E m \in messages_col : m.phone = phone
    THEN {m.client_name : m \in {d \in messages_col : d.phone = phone}}
    ELSE {NoneStr}

\* The document POST /log_message stores under `id`.
dashboard_doc(payload, client_name, id) ==
    [id |-> id,
     phone |-> payload.phone,
     client_name |-> client_name,
     direction |-> "dashboard",
     message |-> payload.message,
     media_url |-> NoneStr,
     automation |-> "Dashboard",
     timestamp |-> IF fromisoformat(payload.timestamp) = NoTimestamp
                   THEN now ELSE fromisoformat(payload.timestamp),
     follow_up_needed |-> payload.follow_up_needed,
     handled_by |-> IF payload.handled_by \in {NoneStr, ""}
                    THEN "Dashboard User" ELSE payload.handled_by,
     notes |-> IF payload.notes = NoneStr THEN "" ELSE payload.notes]

\* A patch that writes every field of the body, provided or not.
updated_all(msg, payload) ==
    [msg EXCEPT !.follow_up_needed = payload.follow_up_needed = "True",
                !.handled_by = payload.handled_by,
                !.notes = payload.notes]

\* msg.update(updates): the provided fields over those of msg.  The optional
\* bool of the payload is "None", "True" or "False".
updated(msg, payload) ==
    [msg EXCEPT
        !.follow_up_needed = IF payload.follow_up_needed = NoneStr THEN @
                             ELSE payload.follow_up_needed = "True",
        !.handled_by = IF payload.handled_by = NoneStr THEN @ ELSE payload.handled_by,
        !.notes = IF payload.notes = NoneStr THEN @ ELSE payload.notes]

\* ------------------------------------------------------------- filter store
\* The collection holds at most one document of a filter type: each is
\* written by an upsert on its type, and an upsert is one step of the database.
of_type(filter_type) == {d \in filters_col : d.filter_type = filter_type}

\* An upsert of the ids that adds them to the stored ones.
upsert_ids_merge(col, ids) ==
    {d \in col : d.filter_type # "exclude_exact_ids"}
        \cup {[filter_type |-> "exclude_exact_ids",
               ids |-> ids \cup UNION {d.ids : d \in {x \in col : x.filter_type = "exclude_exact_ids"}},
               updated_at |-> now]}

\* update_one({"filter_type": "exclude_exact_ids"}, {"$set": ...}, upsert=True)
upsert_ids(col, ids) ==
    {d \in col : d.filter_type # "exclude_exact_ids"}
        \cup {[filter_type |-> "exclude_exact_ids", ids |-> ids, updated_at |-> now]}

\* update_one({"filter_type": "exclude_id_patterns"}, {"$set": ...}, upsert=True)
upsert_patterns(col, patterns) ==
    {d \in col : d.filter_type # "exclude_id_patterns"}
        \cup {[filter_type |-> "exclude_id_patterns", patterns |-> patterns,
               updated_at |-> now]}

\* A delete_one of the pattern document that matches nothing.
delete_patterns_missed(col) == col

\* delete_one({"filter_type": "exclude_id_patterns"})
delete_patterns(col) == {d \in col : d.filter_type # "exclude_id_patterns"}

\* delete_one({"filter_type": "exclude_exact_ids"})
delete_ids(col) == {d \in col : d.filter_type # "exclude_exact_ids"}

\* The response of update_exclusion_filters, kept with the body it answers.
ExclusionFiltersResponse(filters, ids, patterns) ==
    [op |-> "update_exclusion_filters", status |-> 200, filters |-> filters,
     exclude_ids |-> ids, exclude_id_patterns |-> patterns,
     total_excluded_ids |-> Cardinality(ids), total_patterns |-> Cardinality(patterns)]

\* ---------------------------------------------------------- automation flag
\* An update of the flag that inserts a document beside the stored one.
upsert_automation_insert(col, phone, enabled) ==
    col \cup {[phone |-> phone, automation_enabled |-> enabled, updated_at |-> now]}

\* update_one({"phone": phone}, {"$set": ...}, upsert=True)
upsert_automation(col, phone, enabled) ==
    {d \in col : d.phone # phone}
        \cup {[phone |-> phone, automation_enabled |-> enabled, updated_at |-> now]}

\* get_automation_enabled_for_phone(phone): the flag of the phone's document
\* (the unique index on phone leaves find_one at most one), True without one.
get_automation_enabled_for_phone(phone) ==
    IF \E d \in automation_col : d.phone = phone
    THEN (CHOOSE d \in automation_col : d.phone = phone).automation_enabled
    ELSE TRUE

\* AutomationStatus(phone=phone, automation_enabled=enabled)
AutomationStatus(op, phone, enabled) ==
    [op |-> op, status |-> 200, phone |-> phone, automation_enabled |-> enabled]

\* ---------------------------------------------------------------- handlers
\* A handler as one action: the run of a request that no other request
\* interleaves with.
Respond(p, r) ==
    /\ resp' = IF p \in Procs THEN [resp EXCEPT ![p] = r] ELSE resp
    /\ pc' = [pc EXCEPT ![p] = Idle]

Return(p, id) == returned' = IF p \in Procs THEN returned \cup {id} ELSE returned

\* POST /log
log_message(p, payload) ==
    /\ pc[p] = Idle
    /\ get_next_message_id <= MaxId
    /\ IF normalize_direction(payload.direction) = Invalid
       THEN /\ Respond(p, [op |-> "log_message", status |-> 400])
            /\ UNCHANGED <<messages_col, returned>>
       ELSE /\ messages_col' = messages_col \cup {log_doc(payload, get_next_message_id)}
            /\ Return(p, get_next_message_id)
            /\ Respond(p, [op |-> "log_message", status |-> 200, id |-> get_next_message_id])
    /\ UNCHANGED <<automation_col, filters_col, now>>

\* POST /log_message
log_message_from_dashboard(p, payload) ==
    /\ pc[p] = Idle
    /\ get_next_message_id <= MaxId
    /\ \E client_name \in existing_client_names(payload.phone) :
          messages_col' = messages_col
              \cup {dashboard_doc(payload, client_name, get_next_message_id)}
    /\ Return(p, get_next_message_id)
    /\ Respond(p, [op |-> "log_message_from_dashboard", status |-> 200,
                   id |-> get_next_message_id])
    /\ UNCHANGED <<automation_col, filters_col, now>>

\* PATCH /message/{msg_id}
update_message(p, msg_id, payload) ==
    /\ pc[p] = Idle
    /\ IF \E m \in messages_col : m.id = msg_id
       THEN /\ messages_col' = {IF m.id = msg_id THEN updated(m, payload) ELSE m :
                                   m \in messages_col}
            /\ Respond(p, [op |-> "update_message", status |-> 200, id |-> msg_id])
       ELSE /\ Respond(p, [op |-> "update_message", status |-> 404])
            /\ UNCHANGED messages_col
    /\ UNCHANGED <<automation_col, filters_col, now, returned>>

\* DELETE /message/{msg_id}
delete_message(p, msg_id) ==
    /\ pc[p] = Idle
    /\ messages_col' = {m \in messages_col : m.id # msg_id}
    /\ IF messages_col' = messages_col
       THEN Respond(p, [op |-> "delete_message", status |-> 404])
       ELSE Respond(p, [op |-> "delete_message", status |-> 200, deleted_count |-> 1])
    /\ UNCHANGED <<automation_col, filters_col, now, returned>>

\* A delete_conversation that removes one message of the phone, not all.
delete_conversation_one(p, phone) ==
    /\ pc[p] = Idle
    /\ IF \E m \in messages_col : m.phone = phone
       THEN /\ \E m \in messages_col :
                  m.phone = phone /\ messages_col' = messages_col \ {m}
            /\ Respond(p, [op |-> "delete_conversation", status |-> 200,
                           deleted_count |-> 1])
       ELSE /\ Respond(p, [op |-> "delete_conversation", status |-> 404])
            /\ UNCHANGED messages_col
    /\ UNCHANGED <<automation_col, filters_col, now, returned>>

\* DELETE /conversation/{phone}
delete_conversation(p, phone) ==
    /\ pc[p] = Idle
    /\ messages_col' = {m \in messages_col : m.phone # phone}
    /\ IF messages_col' = messages_col
       THEN Respond(p, [op |-> "delete_conversation", status |-> 404])
       ELSE Respond(p, [op |-> "delete_conversation", status |-> 200,
                        deleted_count |-> Cardinality(messages_col) - Cardinality(messages_col')])
    /\ UNCHANGED <<automation_col, filters_col, now, returned>>

\* POST /filters/exclusions
update_exclusion_filters(p, filters) ==
    /\ pc[p] = Idle
    /\ filters_col' = upsert_patterns(upsert_ids(filters_col, clean_ids(filters.exclude_ids)),
                                      clean_patterns(filters.exclude_id_patterns))
    /\ Respond(p, ExclusionFiltersResponse(filters, clean_ids(filters.exclude_ids),
                                           clean_patterns(filters.exclude_id_patterns)))
    /\ UNCHANGED <<messages_col, automation_col, now, returned>>

\* DELETE /filters/exclusions
clear_exclusion_filters(p) ==
    /\ pc[p] = Idle
    /\ filters_col' = delete_patterns(delete_ids(filters_col))
    /\ Respond(p, [op |-> "clear_exclusion_filters", status |-> 200,
                   deleted_count |-> Cardinality(filters_col) - Cardinality(filters_col')])
    /\ UNCHANGED <<messages_col, automation_col, now, returned>>

\* GET /automation/{phone}
get_automation(p, phone) ==
    /\ pc[p] = Idle
    /\ Respond(p, AutomationStatus("get_automation", phone,
                                   get_automation_enabled_for_phone(phone)))
    /\ UNCHANGED <<messages_col, automation_col, filters_col, now, returned>>

\* PATCH /automation/{phone}
set_automation(p, phone, update) ==
    /\ pc[p] = Idle
    /\ automation_col' = upsert_automation(automation_col, phone, update.automation_enabled)
    /\ Respond(p, AutomationStatus("set_automation", phone, update.automation_enabled))
    /\ UNCHANGED <<messages_col, filters_col, now, returned>>

\* datetime.utcnow() moves on between requests, past every instant a caller
\* names.
Tick ==
    /\ now <= MaxTime
    /\ now' = now + 1
    /\ UNCHANGED <<messages_col, automation_col, filters_col, pc, resp, returned>>

\* ------------------------------------------------------------------- steps
\* The same handlers one database call at a time: between two calls of a
\* request the calls of other requests may run.
\* POST /log up to the insert: normalize_direction, get_next_message_id.
log_message_begin(p, payload) ==
    /\ pc[p] = Idle
    /\ get_next_message_id <= MaxId
    /\ IF normalize_direction(payload.direction) = Invalid
       THEN Respond(p, [op |-> "log_message", status |-> 400])
       ELSE /\ pc' = [pc EXCEPT ![p] =
                 [at |-> "insert_one", op |-> "log_message",
                  doc |-> log_doc(payload, get_next_message_id)]]
            /\ UNCHANGED resp
    /\ UNCHANGED <<messages_col, automation_col, filters_col, now, returned>>

\* POST /log_message up to the insert: find_one, get_next_message_id.
log_message_from_dashboard_begin(p, payload) ==
    /\ pc[p] = Idle
    /\ get_next_message_id <= MaxId
    /\ \E client_name \in existing_client_names(payload.phone) :
          pc' = [pc EXCEPT ![p] =
             [at |-> "insert_one", op |-> "log_message_from_dashboard",
              doc |-> dashboard_doc(payload, client_name, get_next_message_id)]]
    /\ UNCHANGED <<messages_col, automation_col, filters_col, now, resp, returned>>

\* messages_col.insert_one(doc) and the return of either append; the
\* DuplicateKeyError is caught nowhere and ends the request.
insert_one(p) ==
    /\ pc[p].at = "insert_one"
    /\ IF DuplicateKey(pc[p].doc)
       THEN /\ Respond(p, [op |-> pc[p].op, status |-> 500])
            /\ UNCHANGED <<messages_col, returned>>
       ELSE /\ messages_col' = messages_col \cup {pc[p].doc}
            /\ Return(p, pc[p].doc.id)
            /\ Respond(p, [op |-> pc[p].op, status |-> 200, id |-> pc[p].doc.id])
    /\ UNCHANGED <<automation_col, filters_col, now>>

\* PATCH /message/{msg_id} up to its update: find_one, 404 when it finds
\* nothing, the answer at once when the body provides no field.
update_message_find(p, msg_id, payload) ==
    /\ pc[p] = Idle
    /\ IF \E m \in messages_col : m.id = msg_id
       THEN \E msg \in messages_col :
               /\ msg.id = msg_id
               /\ IF /\ payload.follow_up_needed = NoneStr
                     /\ payload.handled_by = NoneStr
                     /\ payload.notes = NoneStr
                  THEN Respond(p, [op |-> "update_message", status |-> 200, id |-> msg_id,
                                   message |-> doc_to_message(msg)])
                  ELSE /\ pc' = [pc EXCEPT ![p] =
                            [at |-> "update_one", msg_id |-> msg_id,
                             payload |-> payload, msg |-> msg]]
                       /\ UNCHANGED resp
       ELSE Respond(p, [op |-> "update_message", status |-> 404])
    /\ UNCHANGED <<messages_col, automation_col, filters_col, now, returned>>

\* update_one({"id": msg_id}, {"$set": updates}), which changes the stored
\* message of that id if there is one, then msg.update(updates) on the
\* document found before, and the return of it.
update_message_write(p) ==
    /\ pc[p].at = "update_one"
    /\ messages_col' = {IF m.id = pc[p].msg_id THEN updated(m, pc[p].payload) ELSE m :
                           m \in messages_col}
    /\ Respond(p, [op |-> "update_message", status |-> 200, id |-> pc[p].msg_id,
                   message |-> doc_to_message(updated(pc[p].msg, pc[p].payload))])
    /\ UNCHANGED <<automation_col, filters_col, now, returned>>

\* POST /filters/exclusions up to its second update.
update_exclusion_filters_begin(p, filters) ==
    /\ pc[p] = Idle
    /\ filters_col' = upsert_ids(filters_col, clean_ids(filters.exclude_ids))
    /\ pc' = [pc EXCEPT ![p] =
          [at |-> "update_patterns", filters |-> filters,
           clean_ids |-> clean_ids(filters.exclude_ids),
           clean_patterns |-> clean_patterns(filters.exclude_id_patterns)]]
    /\ UNCHANGED <<messages_col, automation_col, now, resp, returned>>

\* The update of the patterns and the return of update_exclusion_filters.
update_patterns(p) ==
    /\ pc[p].at = "update_patterns"
    /\ filters_col' = upsert_patterns(filters_col, pc[p].clean_patterns)
    /\ Respond(p, ExclusionFiltersResponse(pc[p].filters, pc[p].clean_ids,
                                           pc[p].clean_patterns))
    /\ UNCHANGED <<messages_col, automation_col, now, returned>>

\* DELETE /filters/exclusions up to its second delete.
clear_exclusion_filters_begin(p) ==
    /\ pc[p] = Idle
    /\ filters_col' = delete_ids(filters_col)
    /\ pc' = [pc EXCEPT ![p] =
          [at |-> "delete_patterns",
           result1 |-> Cardinality(filters_col) - Cardinality(filters_col')]]
    /\ UNCHANGED <<messages_col, automation_col, now, resp, returned>>

\* The delete of the patterns and the return of clear_exclusion_filters.
clear_patterns(p) ==
    /\ pc[p].at = "delete_patterns"
    /\ filters_col' = delete_patterns(filters_col)
    /\ Respond(p, [op |-> "clear_exclusion_filters", status |-> 200,
                   deleted_count |-> pc[p].result1
                       + (Cardinality(filters_col) - Cardinality(filters_col'))])
    /\ UNCHANGED <<messages_col, automation_col, now, returned>>

\* GET /conversation/{phone} with the default limit and offset, up to its
\* filtering: the find, and the answer at once when it fetched nothing.
get_conversation_find(p, phone) ==
    /\ pc[p] = Idle
    /\ \E fetched \in sort_timestamp({m \in messages_col : m.phone = phone}) :
          LET docs == skip_limit(fetched, 0, 50) IN
          IF docs = <<>>
          THEN Respond(p, [op |-> "get_conversation", status |-> 200,
                           docs |-> <<>>, result |-> <<>>])
          ELSE /\ pc' = [pc EXCEPT ![p] =
                    [at |-> "get_excluded_ids", docs |-> docs, i |-> 1, kept |-> <<>>]]
               /\ UNCHANGED resp
    /\ UNCHANGED <<messages_col, automation_col, filters_col, now, returned>>

\* apply_id_filters went through docs[i] and keeps `kept`: the next document,
\* or the return of [doc_to_message(d) for d in docs] after the last.
next_doc(p, kept) ==
    IF pc[p].i = Len(pc[p].docs)
    THEN Respond(p, [op |-> "get_conversation", status |-> 200, docs |-> pc[p].docs,
                     result |-> [k \in 1..Len(kept) |-> doc_to_message(kept[k])]])
    ELSE /\ pc' = [pc EXCEPT ![p] =
              [at |-> "get_excluded_ids", docs |-> pc[p].docs, i |-> pc[p].i + 1,
               kept |-> kept]]
         /\ UNCHANGED resp

\* should_exclude_id(docs[i]) up to its second read: get_excluded_ids() and
\* the test of the exact ids.
exclude_exact(p) ==
    /\ pc[p].at = "get_excluded_ids"
    /\ IF str(pc[p].docs[pc[p].i].id) \in get_excluded_ids
       THEN next_doc(p, pc[p].kept)
       ELSE /\ pc' = [pc EXCEPT ![p].at = "get_excluded_id_patterns"]
            /\ UNCHANGED resp
    /\ UNCHANGED <<messages_col, automation_col, filters_col, now, returned>>

\* The rest of should_exclude_id(docs[i]): get_excluded_id_patterns() and the
\* test of the patterns.
exclude_patterns(p) ==
    /\ pc[p].at = "get_excluded_id_patterns"
    /\ IF \E pattern \in get_excluded_id_patterns :
             pattern # <<>> /\ contains(lower(pattern), lower(str(pc[p].docs[pc[p].i].id)))
       THEN next_doc(p, pc[p].kept)
       ELSE next_doc(p, Append(pc[p].kept, pc[p].docs[pc[p].i]))
    /\ UNCHANGED <<messages_col, automation_col, filters_col, now, returned>>

\* ----------------------------------------------------------------- inputs
\* POST /log bodies of one direction and text.
LogBodies(direction, message, timestamps) ==
    {[phone |-> phone, client_name |-> NoneStr, direction |-> direction,
      message |-> message, media_url |-> NoneStr, automation |-> NoneStr,
      timestamp |-> t, follow_up_needed |-> fu] :
        phone \in Phones, t \in timestamps, fu \in BOOLEAN}

\* A POST /log body whose direction is no known word.
BadLog ==
    [phone |-> PhoneSeq[1], client_name |-> NoneStr, direction |-> <<"x">>,
     message |-> "hi", media_url |-> NoneStr, automation |-> NoneStr,
     timestamp |-> NoTimestamp, follow_up_needed |-> FALSE]

\* POST /log bodies without a timestamp, and with each.
LogPayloads == LogBodies(W_incoming, "hi", {NoTimestamp}) \cup {BadLog}
TimedLogPayloads == LogBodies(<<" ", "B", "o", "t">>, "hello", Times)

\* direction texts as callers send them: known words in other case and with
\* blanks, and texts that are no known word (the empty text among them).
KnownDirections ==
    {W_user, W_client, <<" ", "B", "o", "t">>, W_outgoing, <<"A", "g", "e", "n", "t", " ">>}
UnknownDirections == {<<>>, <<" ">>, <<"x">>, <<"u", "s", "e", "r", "s">>, <<"b", " ", "o", "t">>}

DirectionPayloads ==
    UNION {LogBodies(direction, "hi", {NoTimestamp}) :
              direction \in KnownDirections \cup UnknownDirections}

\* The two POST /log bodies of the scenario.
Hi ==
    [phone |-> "+1555", client_name |-> NoneStr, direction |-> W_incoming,
     message |-> "hi", media_url |-> NoneStr, automation |-> NoneStr,
     timestamp |-> NoTimestamp, follow_up_needed |-> FALSE]
Hello ==
    [phone |-> "+1555", client_name |-> NoneStr, direction |-> W_outgoing,
     message |-> "hello", media_url |-> NoneStr, automation |-> NoneStr,
     timestamp |-> NoTimestamp, follow_up_needed |-> TRUE]

\* timestamp texts of POST /log_message: ISO texts of the instants, and one
\* that is no ISO text.
IsoTexts == {[iso |-> TRUE, instant |-> t] : t \in Times}
               \cup {[iso |-> FALSE, instant |-> NoTimestamp]}

DashboardPayloads ==
    {[phone |-> phone, message |-> "reply", timestamp |-> text,
      direction |-> "dashboard", follow_up_needed |-> FALSE, notes |-> "",
      handled_by |-> "Dashboard User"] :
        phone \in Phones, text \in IsoTexts}

\* POST /log_message bodies with handled_by absent (null), empty and given.
DashboardBodies ==
    {[phone |-> PhoneSeq[1], message |-> "reply", timestamp |-> text,
      direction |-> "dashboard", follow_up_needed |-> FALSE, notes |-> "",
      handled_by |-> h] :
        text \in IsoTexts, h \in {NoneStr, "", "Ann"}}

\* PATCH bodies that set or clear the follow-up flag.
FollowUpPatches ==
    {[follow_up_needed |-> f, handled_by |-> NoneStr, notes |-> NoneStr] :
        f \in {"True", "False"}}

\* PATCH bodies with every choice of provided fields, the empty one included.
Patches ==
    {[follow_up_needed |-> f, handled_by |-> h, notes |-> n] :
        f \in {NoneStr, "True", "False"}, h \in {NoneStr, "agent"},
        n \in {NoneStr, "seen"}}

\* PATCH /automation bodies.
AutomationUpdates == {[automation_enabled |-> v] : v \in BOOLEAN}

\* PATCH bodies that name the agent: only a patch writes handled_by.
AgentPatches == {payload \in Patches : payload.handled_by = "agent"}

\* Filter bodies that exclude one id each and carry no pattern.
OneIdFilterPayloads ==
    {[exclude_ids |-> <<<<"1">>>>, exclude_id_patterns |-> <<>>],
     [exclude_ids |-> <<<<"2">>>>, exclude_id_patterns |-> <<>>]}

\* Entries a filter request may carry, as typed: with blanks, empty.
FilterEntries == {<<"1">>, <<" ", "2">>, <<"1", " ">>, <<" ">>, <<>>}

Lists(S) == UNION {[1..n -> S] : n \in 0..MaxListLen}

\* POST /filters/exclusions bodies: every list of entries as the ids, as the
\* patterns, and as both.
FilterPayloads ==
    {[exclude_ids |-> list, exclude_id_patterns |-> <<>>] : list \in Lists(FilterEntries)}
    \cup {[exclude_ids |-> <<>>, exclude_id_patterns |-> list] : list \in Lists(FilterEntries)}
    \cup {[exclude_ids |-> list, exclude_id_patterns |-> list] : list \in Lists(FilterEntries)}

\* A few of them: an exact id, a pattern, both.
FewFilterPayloads ==
    {[exclude_ids |-> <<<<"1", " ">>>>, exclude_id_patterns |-> <<>>],
     [exclude_ids |-> <<>>, exclude_id_patterns |-> <<<<" ", "2">>, <<>>>>],
     [exclude_ids |-> <<<<"1", "2">>>>, exclude_id_patterns |-> <<<<"1">>>>]}

\* ----------------------------------------------------------- specifications
\* One client: every request runs to its return before the next starts.
Next ==
    \/ \E payload \in LogPayloads : log_message("c1", payload)
    \/ \E payload \in DashboardPayloads : log_message_from_dashboard("c1", payload)
    \/ \E msg_id \in 1..MaxId, payload \in FollowUpPatches :
          update_message("c1", msg_id, payload)
    \/ \E msg_id \in 1..MaxId : delete_message("c1", msg_id)
    \/ \E phone \in Phones : delete_conversation("c1", phone)
    \/ \E filters \in FewFilterPayloads : update_exclusion_filters("c1", filters)
    \/ clear_exclusion_filters("c1")

Spec == Init /\ [][Next]_vars

\* The stores one client after another can leave: the same requests on more
\* kinds of message, their responses not kept.
NextStores ==
    \/ \E payload \in TimedLogPayloads : log_message(Quiet, payload)
    \/ \E payload \in DashboardPayloads : log_message_from_dashboard(Quiet, payload)
    \/ \E msg_id \in 1..MaxId, payload \in FollowUpPatches :
          update_message(Quiet, msg_id, payload)
    \/ \E msg_id \in 1..MaxId : delete_message(Quiet, msg_id)
    \/ \E phone \in Phones : delete_conversation(Quiet, phone)
    \/ \E filters \in FewFilterPayloads : update_exclusion_filters(Quiet, filters)
    \/ clear_exclusion_filters(Quiet)

SpecStores == Init /\ [][NextStores]_vars

\* Two clients appending at once, one database call at a time.
NextAppend ==
    \E p \in Procs :
        \/ \E payload \in LogPayloads : log_message_begin(p, payload)
        \/ \E payload \in DashboardPayloads : log_message_from_dashboard_begin(p, payload)
        \/ insert_one(p)

SpecAppend == Init /\ [][NextAppend]_vars

\* One client setting and clearing the filters, with every body, over a log
\* of a few messages.
NextFilters ==
    \/ \E filters \in FilterPayloads : update_exclusion_filters("c1", filters)
    \/ clear_exclusion_filters("c1")
    \/ \E payload \in LogBodies(W_incoming, "hi", {NoTimestamp}) :
          /\ payload.follow_up_needed /\ payload.phone = PhoneSeq[1]
          /\ log_message(Quiet, payload)

SpecFilters == Init /\ [][NextFilters]_vars

\* Two clients setting and clearing the filters at once, one database call
\* at a time.
NextFilterRace ==
    \E p \in Procs :
        \/ \E filters \in FewFilterPayloads : update_exclusion_filters_begin(p, filters)
        \/ update_patterns(p)
        \/ clear_exclusion_filters_begin(p)
        \/ clear_patterns(p)

SpecFilterRace == Init /\ [][NextFilterRace]_vars

\* One client appending, patching with every body, and deleting.
NextPatch ==
    \/ \E payload \in LogPayloads : log_message("c1", payload)
    \/ \E msg_id \in 1..MaxId, payload \in Patches : update_message("c1", msg_id, payload)
    \/ \E msg_id \in 1..MaxId : delete_message("c1", msg_id)

SpecPatch == Init /\ [][NextPatch]_vars

\* One client appending with every direction text, from the dashboard too,
\* and deleting.
NextDirections ==
    \/ \E payload \in DirectionPayloads : log_message("c1", payload)
    \/ \E payload \in DashboardPayloads : log_message_from_dashboard("c1", payload)
    \/ \E msg_id \in 1..MaxId : delete_message("c1", msg_id)

SpecDirections == Init /\ [][NextDirections]_vars

\* One client reading and setting the automation flags while messages are
\* appended and conversations deleted.
NextAutomation ==
    \/ \E phone \in Phones : get_automation("c1", phone)
    \/ \E phone \in Phones, update \in AutomationUpdates : set_automation("c1", phone, update)
    \/ \E payload \in LogPayloads : log_message(Quiet, payload)
    \/ \E phone \in Phones : delete_conversation(Quiet, phone)

SpecAutomation == Init /\ [][NextAutomation]_vars

\* One client appending from the dashboard and deleting while time passes.
NextDashboard ==
    \/ Tick
    \/ \E payload \in DashboardBodies : log_message_from_dashboard("c1", payload)
    \/ \E msg_id \in 1..MaxId : delete_message("c1", msg_id)

SpecDashboard == Init /\ [][NextDashboard]_vars

\* One client sending the bodies of the scenario in any order, patching the
\* follow-up flag and deleting, while time passes.
NextScenario ==
    \/ Tick
    \/ \E payload \in {Hi, Hello} : log_message("c1", payload)
    \/ \E msg_id \in 1..MaxId, payload \in FollowUpPatches :
          update_message("c1", msg_id, payload)
    \/ \E msg_id \in 1..MaxId : delete_message("c1", msg_id)

SpecScenario == Init /\ [][NextScenario]_vars

\* A client patching, one database call at a time, while another deletes
\* and messages are appended.
NextPatchRace ==
    \/ \E msg_id \in 1..MaxId, payload \in AgentPatches :
          update_message_find("c1", msg_id, payload)
    \/ update_message_write("c1")
    \/ \E msg_id \in 1..MaxId : delete_message("c2", msg_id)
    \/ \E payload \in LogPayloads : log_message(Quiet, payload)

SpecPatchRace == Init /\ [][NextPatchRace]_vars

\* A client reading a conversation, one database call at a time, while
\* another sets and clears the filters and messages are appended.
NextSnapshot ==
    \/ \E phone \in Phones : get_conversation_find("c1", phone)
    \/ exclude_exact("c1")
    \/ exclude_patterns("c1")
    \/ \E filters \in OneIdFilterPayloads : update_exclusion_filters_begin("c2", filters)
    \/ update_patterns("c2")
    \/ clear_exclusion_filters_begin("c2")
    \/ clear_patterns("c2")
    \/ \E payload \in LogPayloads : log_message(Quiet, payload)

SpecSnapshot == Init /\ [][NextSnapshot]_vars

\* ------------------------------------------------------------------ claims
\* The stored policy, and the rule of the specification: an id is excluded
\* when its decimal text is a stored exact id or holds a stored non-empty
\* pattern, letter case aside, at some position.
ExactIds == UNION {d.ids : d \in {x \in filters_col : x.filter_type = "exclude_exact_ids"}}
Patterns == UNION {d.patterns : d \in {x \in filters_col : x.filter_type = "exclude_id_patterns"}}

HoldsAt(text, pattern, i) ==
    \A k \in 1..Len(pattern) : LowerChar(text[i + k - 1]) = LowerChar(pattern[k])

RuleExcluded(id) ==
    \/ str(id) \in ExactIds
    \/ \E pattern \in Patterns :
          /\ Len(pattern) > 0
          /\ \E i \in 1..(Len(str(id)) - Len(pattern) + 1) : HoldsAt(str(id), pattern, i)

Visible(phone) == {m \in messages_col : m.phone = phone /\ ~RuleExcluded(m.id)}

Ids(messages) == {messages[i].id : i \in 1..Len(messages)}

Appends == {"log_message", "log_message_from_dashboard"}

\* An append of client p returns an id in this step: its insert_one step, or
\* the whole handler of an idle client.
AppendReturns(p) ==
    /\ resp'[p].op \in Appends
    /\ resp'[p].status = 200
    /\ pc'[p] = Idle
    /\ \/ pc[p].at = "insert_one"
       \/ pc[p] = Idle /\ resp'[p] # resp[p]

\* C1: no two stored messages share an id, and no append returns an id that
\* an append has returned before.
C1_DistinctIds ==
    /\ [](\A a, b \in messages_col : a.id = b.id => a = b)
    /\ [][\A p \in Procs : AppendReturns(p) => resp'[p].id \notin returned]_vars

\* One client was returned the id that the other, having read the same highest
\* id, is about to insert.
C1_Witness ==
    /\ resp["c1"].op \in Appends /\ resp["c1"].status = 200
    /\ pc["c2"].at = "insert_one"
    /\ pc["c2"].doc.id = resp["c1"].id

\* C2: an append whose body is valid ends with its message stored, never in
\* an error, also when another append took its id.
C2_ConflictRetried ==
    \A p \in Procs :
        (pc[p] = Idle /\ resp[p].op \in Appends /\ resp[p].status # 400) =>
            /\ resp[p].status = 200
            /\ \E m \in messages_col : m.id = resp[p].id

\* C3: an append that starts after another returned gets a higher id.  With
\* one client every append starts after all earlier ones returned.
C3_IdsIncrease ==
    [][AppendReturns("c1") => \A earlier \in returned : earlier < resp'["c1"].id]_vars

\* C4: should_exclude_id is the rule; a stored message the rule excludes is in
\* no conversation page and is never the latest of a contact; a stored message
\* the rule does not exclude is in its conversation and makes its phone a
\* contact.
C4_FilterTransparency ==
    /\ \A id \in 0..MaxIdArg : should_exclude_id(id) <=> RuleExcluded(id)
    /\ \A m \in messages_col :
          IF RuleExcluded(m.id)
          THEN /\ \A limit \in 0..MaxPage, offset \in 0..MaxPage :
                     \A r \in get_conversation(m.phone, limit, offset) : m.id \notin Ids(r)
               /\ \A fetched \in sort_phone_timestamp(messages_col) :
                     \A phone \in DOMAIN latest_per_phone(apply_id_filters(fetched)) :
                        latest_per_phone(apply_id_filters(fetched))[phone].id # m.id
          ELSE /\ \A r \in get_conversation(m.phone, Cardinality(messages_col), 0) :
                     m.id \in Ids(r)
               /\ \A r \in list_contacts(FALSE) :
                     \E i \in 1..Len(r) : r[i].phone = m.phone

\* A stored message excluded by a pattern only, beside a visible one of the
\* same phone.
C4_Witness ==
    \E m, v \in messages_col :
        /\ m.phone = v.phone
        /\ RuleExcluded(m.id) /\ str(m.id) \notin ExactIds
        /\ ~RuleExcluded(v.id)

\* The page a request should get from the documents `visible` in order.
Page(visible, limit, offset) ==
    [i \in 1..(IF Len(visible) - offset < limit
               THEN (IF Len(visible) < offset THEN 0 ELSE Len(visible) - offset)
               ELSE limit) |-> doc_to_message(visible[offset + i])]

\* C5: a conversation page is the positions offset .. offset+limit-1 of the
\* phone's non-excluded messages, oldest first.
C5_PageAfterFilter ==
    \A phone \in Phones, limit \in 1..MaxPage, offset \in 0..MaxPage :
        get_conversation(phone, limit, offset)
            \subseteq {Page(visible, limit, offset) : visible \in sort_timestamp(Visible(phone))}

\* C6: follow_up_open of every listed phone is the OR of follow_up_needed
\* over the phone's non-excluded messages, and onlyFollowUp lists the phones
\* whose OR is true.
FollowUpOr(phone) == \E m \in Visible(phone) : m.follow_up_needed

C6_FollowUpOr ==
    \A only \in BOOLEAN : \A r \in list_contacts(only) :
        /\ \A i \in 1..Len(r) : r[i].follow_up_open = FollowUpOr(r[i].phone)
        /\ {r[i].phone : i \in 1..Len(r)} =
              {phone \in Phones : Visible(phone) # {} /\ (only => FollowUpOr(phone))}

\* A phone whose newest visible message is not flagged and an older one is.
C6_Witness ==
    \E phone \in Phones : \E old, new \in Visible(phone) :
        /\ old.timestamp < new.timestamp
        /\ old.follow_up_needed /\ ~new.follow_up_needed
        /\ \A m \in Visible(phone) : m.timestamp = new.timestamp => ~m.follow_up_needed

\* C7: the contact list has one entry per phone with a non-excluded message,
\* each entry showing a non-excluded message of the phone with the highest
\* timestamp, newest contact first.
C7_LatestPerPhone ==
    \A only \in BOOLEAN : \A r \in list_contacts(only) :
        /\ \A i, j \in 1..Len(r) : i # j => r[i].phone # r[j].phone
        /\ ~only => {r[i].phone : i \in 1..Len(r)} = {phone \in Phones : Visible(phone) # {}}
        /\ \A i \in 1..Len(r) : \E m \in Visible(r[i].phone) :
              /\ \A other \in Visible(r[i].phone) : other.timestamp <= m.timestamp
              /\ r[i].last_message = m.message
              /\ r[i].last_time = m.timestamp
              /\ r[i].last_direction = m.direction
        /\ \A i, j \in 1..Len(r) : i < j => r[i].last_time >= r[j].last_time

\* A phone with two visible messages of different texts, the newer one being
\* the one its contact shows.
C7_Witness ==
    \E a, b \in messages_col :
        /\ a.phone = b.phone /\ a.timestamp < b.timestamp /\ a.message # b.message
        /\ ~RuleExcluded(a.id) /\ ~RuleExcluded(b.id)
        /\ \A r \in list_contacts(FALSE) :
              \E i \in 1..Len(r) : r[i].phone = b.phone /\ r[i].last_message = b.message

\* A step that writes the filter collection, or in which a filter handler
\* returns.
FilterStep ==
    \/ filters_col' # filters_col
    \/ \E p \in Procs :
          /\ resp'[p] # resp[p]
          /\ resp'[p].op \in {"update_exclusion_filters", "clear_exclusion_filters"}

\* C8: no step of a filter handler changes the stored messages, and right
\* after a clear no id is excluded: every stored message is in its
\* conversation and counts for its contact.
C8_FrameAndClear ==
    /\ [][FilterStep => messages_col' = messages_col]_vars
    /\ [](\A p \in Procs :
            (pc[p] = Idle /\ resp[p].op = "clear_exclusion_filters") =>
               /\ \A id \in 0..MaxIdArg : ~should_exclude_id(id)
               /\ \A m \in messages_col :
                     /\ \A r \in get_conversation(m.phone, Cardinality(messages_col), 0) :
                           m.id \in Ids(r)
                     /\ \A r \in list_contacts(FALSE) : \E i \in 1..Len(r) :
                           /\ r[i].phone = m.phone
                           /\ m.follow_up_needed => r[i].follow_up_open
                           /\ r[i].last_time >= m.timestamp)

\* A clear has just returned over a log that holds a message.
C8_Witness ==
    /\ pc["c1"] = Idle /\ resp["c1"].op = "clear_exclusion_filters"
    /\ resp["c1"].deleted_count = 2
    /\ messages_col # {}

\* An entry without the blanks around it.
Trim(entry) ==
    CHOOSE t \in {SubSeq(entry, i, j) : i \in 1..(Len(entry) + 1), j \in 0..Len(entry)} :
        /\ \E i \in 1..(Len(entry) + 1), j \in 0..Len(entry) :
              /\ t = SubSeq(entry, i, j)
              /\ i <= j + 1
              /\ \A k \in 1..Len(entry) : (k < i \/ k > j) => IsSpace(entry[k])
        /\ t # <<>> => ~IsSpace(t[1]) /\ ~IsSpace(t[Len(t)])

\* The set a list of entries stands for: trimmed, without the empty ones.
Cleaned(list) == {Trim(list[i]) : i \in 1..Len(list)} \ {<<>>}

\* C9: when a filter update has returned, the stored exact ids and patterns
\* are those of its body, trimmed, without empties and each once, whatever
\* was stored before; the same update again would store the same.
C9_FullReplace ==
    (pc["c1"] = Idle /\ resp["c1"].op = "update_exclusion_filters") =>
        /\ ExactIds = Cleaned(resp["c1"].filters.exclude_ids)
        /\ Patterns = Cleaned(resp["c1"].filters.exclude_id_patterns)
        /\ Cardinality(of_type("exclude_exact_ids")) = 1
        /\ Cardinality(of_type("exclude_id_patterns")) = 1
        /\ upsert_patterns(upsert_ids(filters_col,
                                      clean_ids(resp["c1"].filters.exclude_ids)),
                           clean_patterns(resp["c1"].filters.exclude_id_patterns))
              = filters_col

\* An update whose body repeats an id with other blanks and carries an empty
\* entry has returned.
C9_Witness ==
    /\ pc["c1"] = Idle /\ resp["c1"].op = "update_exclusion_filters"
    /\ resp["c1"].filters.exclude_ids = <<<<"1">>, <<"1", " ">>>>
    /\ resp["c1"].filters.exclude_id_patterns = <<<<"1">>, <<"1", " ">>>>
    /\ ExactIds = {<<"1">>}
    /\ messages_col # {}

\* C10: when two filter updates have both returned, the stored exact ids and
\* patterns are those of one of the two.
C10_LastWriterWins ==
    (/\ \A p \in Procs : pc[p] = Idle /\ resp[p].op = "update_exclusion_filters") =>
        \E p \in Procs :
            /\ ExactIds = resp[p].exclude_ids
            /\ Patterns = resp[p].exclude_id_patterns

\* What a patch of msg_id with payload may do to the log and answer.
PatchFrame(msg_id, payload) ==
    IF \E m \in messages_col : m.id = msg_id
    THEN /\ resp'["c1"].status = 200
         /\ \E m \in messages_col, n \in messages_col' :
               /\ m.id = msg_id /\ n.id = msg_id
               /\ messages_col' \ {n} = messages_col \ {m}
               /\ n.follow_up_needed =
                     IF payload.follow_up_needed = NoneStr THEN m.follow_up_needed
                     ELSE payload.follow_up_needed = "True"
               /\ n.handled_by =
                     IF payload.handled_by = NoneStr THEN m.handled_by
                     ELSE payload.handled_by
               /\ n.notes = IF payload.notes = NoneStr THEN m.notes ELSE payload.notes
               /\ \A field \in DOMAIN m \ {"follow_up_needed", "handled_by", "notes"} :
                     n[field] = m[field]
    ELSE /\ resp'["c1"].status = 404
         /\ messages_col' = messages_col

\* C11: a patch changes the provided fields of the message with that id and
\* nothing else, all of them in one step; a patch of an id that is not stored
\* answers not-found and changes nothing.
C11_PatchFrame ==
    [][\A msg_id \in 1..MaxId, payload \in Patches :
          update_message("c1", msg_id, payload) => PatchFrame(msg_id, payload)]_vars

\* A patch that provided handled_by and not notes has returned.
C11_Witness ==
    /\ pc["c1"] = Idle
    /\ resp["c1"].op = "update_message" /\ resp["c1"].status = 200
    /\ \E m \in messages_col :
          /\ m.id = resp["c1"].id
          /\ m.handled_by = "agent" /\ m.notes = NoneStr /\ m.follow_up_needed

\* C12: POST /log stores one message of direction user or bot, or, for a
\* direction that is no known word, answers a validation error and stores
\* nothing; so every stored message has direction user, bot or dashboard,
\* and dashboard only on a message of the dashboard append.
C12_DirectionNormalized ==
    /\ [](\A m \in messages_col :
             /\ m.direction \in {"user", "bot", "dashboard"}
             /\ m.direction = "dashboard" => m.automation = "Dashboard")
    /\ [][\A payload \in DirectionPayloads :
             log_message("c1", payload) =>
                IF payload.direction \in UnknownDirections
                THEN resp'["c1"].status = 400 /\ messages_col' = messages_col
                ELSE /\ resp'["c1"].status = 200
                     /\ \E n \in messages_col' \ messages_col :
                           /\ messages_col' = messages_col \cup {n}
                           /\ n.direction \in {"user", "bot"}
                           /\ n.automation # "Dashboard"]_vars

\* A rejected POST /log after one that was stored as bot.
C12_Witness ==
    /\ resp["c1"] = [op |-> "log_message", status |-> 400]
    /\ \E m \in messages_col : m.direction = "bot"

\* C13: a delete of a stored id removes that message and no other; a delete
\* by phone removes the phone's messages and no other and returns their
\* number; either answers not-found and changes nothing when nothing matches.
C13_DeleteExact ==
    [][/\ \A msg_id \in 1..MaxId :
             delete_message("c1", msg_id) =>
                IF \E m \in messages_col : m.id = msg_id
                THEN /\ resp'["c1"].status = 200
                     /\ \E m \in messages_col :
                           m.id = msg_id /\ messages_col' = messages_col \ {m}
                ELSE resp'["c1"].status = 404 /\ messages_col' = messages_col
       /\ \A phone \in Phones :
             delete_conversation("c1", phone) =>
                IF \E m \in messages_col : m.phone = phone
                THEN /\ resp'["c1"].status = 200
                     /\ \A m \in messages_col : m \in messages_col' <=> m.phone # phone
                     /\ messages_col' \subseteq messages_col
                     /\ resp'["c1"].deleted_count =
                           Cardinality({m \in messages_col : m.phone = phone})
                ELSE resp'["c1"].status = 404 /\ messages_col' = messages_col]_vars

\* A delete by phone has returned and a message of the other phone is left.
C13_Witness ==
    /\ resp["c1"].op = "delete_conversation" /\ resp["c1"].status = 200
    /\ messages_col # {}

\* The automation records of a phone in a collection.
AutomationRecords(col, phone) == {d \in col : d.phone = phone}

\* C14: a phone has at most one automation record; a get reports true
\* without a record and the record's value with one; a set leaves the phone
\* with the value set and the records of other phones as they were; no other
\* step changes a record, so a get reports the value of the last set.
C14_AutomationFlag ==
    /\ [](\A phone \in Phones : Cardinality(AutomationRecords(automation_col, phone)) <= 1)
    /\ [](resp["c1"].op = "get_automation" =>
            IF AutomationRecords(automation_col, resp["c1"].phone) = {}
            THEN resp["c1"].automation_enabled = TRUE
            ELSE \A d \in AutomationRecords(automation_col, resp["c1"].phone) :
                    d.automation_enabled = resp["c1"].automation_enabled)
    /\ [][\A phone \in Phones, update \in AutomationUpdates :
             set_automation("c1", phone, update) =>
                /\ AutomationRecords(automation_col', phone) # {}
                /\ \A d \in AutomationRecords(automation_col', phone) :
                      d.automation_enabled = update.automation_enabled
                /\ \A other \in Phones \ {phone} :
                      AutomationRecords(automation_col', other)
                          = AutomationRecords(automation_col, other)]_vars
    /\ [][(~ \E phone \in Phones, update \in AutomationUpdates :
               set_automation("c1", phone, update)) =>
             automation_col' = automation_col]_vars

\* A get reported false for a phone set to false after it was set to true
\* or left unset, while the other phone has no record.
C14_Witness ==
    /\ resp["c1"].op = "get_automation"
    /\ resp["c1"].automation_enabled = FALSE
    /\ \E other \in Phones : AutomationRecords(automation_col, other) = {}
    /\ messages_col # {}

ScenarioMessage(id, direction, message, follow_up_needed, t) ==
    [id |-> id, phone |-> "+1555", client_name |-> NoneStr, direction |-> direction,
     message |-> message, media_url |-> NoneStr, automation |-> NoneStr,
     timestamp |-> t, follow_up_needed |-> follow_up_needed,
     handled_by |-> NoneStr, notes |-> NoneStr]

\* The one contact of the scenario.
ScenarioContact(t, follow_up_open) ==
    [phone |-> "+1555", client_name |-> NoneStr, last_message |-> "hello",
     last_time |-> t, last_direction |-> "bot", follow_up_open |-> follow_up_open]

\* The log after the two appends, the second later than the first.
ScenarioLog(t1, t2, follow_up_needed) ==
    {ScenarioMessage(1, "user", "hi", FALSE, t1),
     ScenarioMessage(2, "bot", "hello", follow_up_needed, t2)}

C17_ContactsDeterministic ==
    \A only_follow_up \in BOOLEAN : Cardinality(list_contacts(only_follow_up)) <= 1

\* C18: a patch that returns an updated message returns one the log held at
\* a moment of the call, and its update adds no message to the log.  Only
\* this patch writes handled_by while it runs, so the log can have held the
\* returned message only when it was found or after the update.
C18_PatchAtomic ==
    [][(pc["c1"].at = "update_one" /\ pc'["c1"] = Idle /\ resp'["c1"].status = 200) =>
          /\ \/ resp'["c1"].message = doc_to_message(pc["c1"].msg)
             \/ \E m \in messages_col' : doc_to_message(m) = resp'["c1"].message
          /\ {m.id : m \in messages_col'} \subseteq {m.id : m \in messages_col}]_vars

\* The documents of docs that the policy (ids, patterns) does not exclude.
FilteredWith(docs, ids, patterns) ==
    SelectSeq(docs, LAMBDA doc :
        ~ \/ str(doc.id) \in ids
          \/ \E pattern \in patterns :
                pattern # <<>> /\ \E i \in 1..Len(str(doc.id)) : HoldsAt(str(doc.id), pattern, i))

\* The exact-id sets and pattern sets the filter store holds at any moment:
\* none, or the cleaned lists of a request.
StorableIds == {{}} \cup {clean_ids(f.exclude_ids) : f \in OneIdFilterPayloads}
StorablePatterns == {{}} \cup {clean_patterns(f.exclude_id_patterns) : f \in OneIdFilterPayloads}

\* C19: the result of a getConversation call is its fetched messages
\* filtered with one pair (exact ids, patterns); the pair is one the store
\* can hold, as a pair that was stored at a moment of the call is.
C19_OneSnapshot ==
    (pc["c1"] = Idle /\ resp["c1"].op = "get_conversation") =>
        \E ids \in StorableIds, patterns \in StorablePatterns :
            resp["c1"].result =
                [k \in 1..Len(FilteredWith(resp["c1"].docs, ids, patterns)) |->
                    doc_to_message(FilteredWith(resp["c1"].docs, ids, patterns)[k])]

====
